---------------------------- MODULE Spec2Model ----------------------------
(***************************************************************************)
(* Model of src/query_executor.py: the statement validator                 *)
(* (QueryExecutor._validate_query and its helpers), the two execute        *)
(* implementations (QueryExecutor.execute and fix_query_executor_execute)  *)
(* and the WHERE-clause builder (fix_build_where_clause).                  *)
(*                                                                         *)
(* Python strings are sequences of one-character strings, so that upper(), *)
(* strip(), split(), substring tests and the regular expressions are       *)
(* computed character by character.                                        *)
(***************************************************************************)
EXTENDS Integers, Sequences, FiniteSets, TLC

VARIABLES
    \* ---- execute(sql_query, connection, parameters) ----
    impl,            \* which implementation runs: "execute" or "fix_query_executor_execute"
    sql_query,       \* the statement text
    connection,      \* TRUE: a connection was supplied, FALSE: None
    parameters,      \* the parameters argument
    pc,              \* position inside the call
    validation,      \* the dict returned by _validate_query
    cursor,          \* the local name cursor: "unbound", "None", "open", "closed"
    exc,             \* the exception caught by the except clause
    ops,             \* every call made on the connection or its cursor, in order
    rowcount,        \* cursor.rowcount as reported by the store
    fetched,         \* cursor.description and cursor.fetchall() of a SELECT
    result,          \* the dict the call returns
    escaped,         \* the exception that leaves the call, if any
    \* ---- fix_build_where_clause(self, parsed) ----
    parsed,              \* the ParsedQuery argument
    schema,              \* self.schema
    self_parameters,     \* self.parameters
    assumptions,         \* self.assumptions
    tables_with_filters, \* the local list tables_with_filters
    where_clause,        \* the returned text
    bpc                  \* "fresh" before the call, "built" after it

execVars  == <<impl, sql_query, connection, parameters, pc, validation, cursor,
               exc, ops, rowcount, fetched, result, escaped>>
buildVars == <<parsed, schema, self_parameters, assumptions,
               tables_with_filters, where_clause, bpc>>
vars      == <<execVars, buildVars>>

-----------------------------------------------------------------------------
(* Bounds of the model *)

\* texts handed to the validator are concatenations of at most MaxFrags fragments
MaxFrags == 3
\* a SELECT fetches at most MaxRows rows
MaxRows == 2
\* a ParsedQuery names at most MaxTables tables
MaxTables == 2
\* a ParsedQuery holds at most MaxConds conditions
MaxConds == 2

-----------------------------------------------------------------------------
(* Python values *)

PyNone == [none |-> TRUE]
PyVal(v) == [none |-> FALSE, value |-> v]

-----------------------------------------------------------------------------
(* Values of the variables a specification does not use *)

ExecIdle ==
    /\ impl = "execute"
    /\ sql_query = <<>>
    /\ connection = FALSE
    /\ parameters = PyNone
    /\ pc = "idle"
    /\ validation = PyNone
    /\ cursor = "unbound"
    /\ exc = PyNone
    /\ ops = <<>>
    /\ rowcount = -1
    /\ fetched = PyNone
    /\ result = PyNone
    /\ escaped = PyNone

BuildIdle ==
    /\ parsed = PyNone
    /\ schema = PyNone
    /\ self_parameters = <<>>
    /\ assumptions = <<>>
    /\ tables_with_filters = <<>>
    /\ where_clause = <<>>
    /\ bpc = "idle"

-----------------------------------------------------------------------------
(* Python str operations, on sequences of characters *)

Lowers == <<"a","b","c","d","e","f","g","h","i","j","k","l","m","n","o","p","q","r","s","t","u","v","w","x","y","z">>
Uppers == <<"A","B","C","D","E","F","G","H","I","J","K","L","M","N","O","P","Q","R","S","T","U","V","W","X","Y","Z">>

UpperChar(c) ==
    IF \E i \in 1..Len(Lowers) : Lowers[i] = c
    THEN Uppers[CHOOSE i \in 1..Len(Lowers) : Lowers[i] = c]
    ELSE c

LowerChar(c) ==
    IF \E i \in 1..Len(Uppers) : Uppers[i] = c
    THEN Lowers[CHOOSE i \in 1..Len(Uppers) : Uppers[i] = c]
    ELSE c

upper(s) == [i \in 1..Len(s) |-> UpperChar(s[i])]
lower(s) == [i \in 1..Len(s) |-> LowerChar(s[i])]

IsSpace(c) == c \in {" ", "\t", "\n"}

\* sub occurs in s at index i
occurs_at(s, sub, i) ==
    /\ i >= 1
    /\ i + Len(sub) - 1 <= Len(s)
    /\ SubSeq(s, i, i + Len(sub) - 1) = sub

\* sub in s
contains(s, sub) == \E i \in 1..(Len(s) + 1) : occurs_at(s, sub, i)

\* s.find(sub, from), 1-based; 0 when absent
RECURSIVE find(_, _, _)
find(s, sub, from) ==
    IF from + Len(sub) - 1 > Len(s) THEN 0
    ELSE IF occurs_at(s, sub, from) THEN from
    ELSE find(s, sub, from + 1)

startswith(s, p) == occurs_at(s, p, 1)
endswith(s, p) == occurs_at(s, p, Len(s) - Len(p) + 1)

\* s.strip()
strip(s) ==
    IF \A i \in 1..Len(s) : IsSpace(s[i])
    THEN <<>>
    ELSE LET first == CHOOSE i \in 1..Len(s) :
                        ~IsSpace(s[i]) /\ \A j \in 1..(i - 1) : IsSpace(s[j])
             last  == CHOOSE i \in 1..Len(s) :
                        ~IsSpace(s[i]) /\ \A j \in (i + 1)..Len(s) : IsSpace(s[j])
         IN  SubSeq(s, first, last)

\* s.count(sub), non-overlapping, for a non-empty sub
RECURSIVE count(_, _)
count(s, sub) ==
    LET i == find(s, sub, 1)
    IN  IF i = 0 THEN 0
        ELSE 1 + count(SubSeq(s, i + Len(sub), Len(s)), sub)

\* s.split(sep), for a non-empty sep
RECURSIVE split(_, _)
split(s, sep) ==
    LET i == find(s, sep, 1)
    IN  IF i = 0 THEN <<s>>
        ELSE <<SubSeq(s, 1, i - 1)>> \o split(SubSeq(s, i + Len(sep), Len(s)), sep)

\* sep.join(parts)
RECURSIVE join(_, _)
join(sep, parts) ==
    IF parts = <<>> THEN <<>>
    ELSE IF Len(parts) = 1 THEN parts[1]
    ELSE parts[1] \o sep \o join(sep, Tail(parts))

-----------------------------------------------------------------------------
(* Regular expressions of the validator *)

\* re.sub(q [^q]* q, q q, s) for a quote character q: leftmost, non-overlapping
RECURSIVE sub_quoted(_, _)
sub_quoted(s, q) ==
    LET i == find(s, <<q>>, 1)
        j == IF i = 0 THEN 0 ELSE find(s, <<q>>, i + 1)
    IN  IF j = 0 THEN s
        ELSE SubSeq(s, 1, i - 1) \o <<q, q>> \o sub_quoted(SubSeq(s, j + 1, Len(s)), q)

\* the n characters of l from index from on are all whitespace
all_space(l, from, n) ==
    \A j \in 0..(n - 1) : from + j <= Len(l) /\ IsSpace(l[from + j])

\* re.search(a \s{minws,} b, s, re.IGNORECASE) for lower-case literals a and b
search_ws(s, a, b, minws) ==
    LET l == lower(s)
    IN  \E i \in 1..Len(l), k \in minws..Len(l) :
            /\ occurs_at(l, a, i)
            /\ all_space(l, i + Len(a), k)
            /\ occurs_at(l, b, i + Len(a) + k)

\* re.search(a \s* b \s* c, s, re.IGNORECASE) for lower-case literals a, b and c
search_ws_ws(s, a, b, c) ==
    LET l == lower(s)
    IN  \E i \in 1..Len(l), k \in 0..Len(l), m \in 0..Len(l) :
            /\ occurs_at(l, a, i)
            /\ all_space(l, i + Len(a), k)
            /\ occurs_at(l, b, i + Len(a) + k)
            /\ all_space(l, i + Len(a) + k + Len(b), m)
            /\ occurs_at(l, c, i + Len(a) + k + Len(b) + m)

\* re.search('.*or.*'.*=.*', s, re.IGNORECASE): '.' matches anything but a newline
search_quoted_or(s) ==
    LET l == lower(s)
    IN  \E a \in 1..Len(l), e \in 1..Len(l) :
            /\ a < e
            /\ l[a] = "'"
            /\ l[e] = "'"
            /\ \A j \in a..e : l[j] # "\n"
            /\ \E b \in (a + 1)..e, c \in (a + 1)..e, d \in (a + 1)..e :
                  /\ occurs_at(l, <<"o","r">>, b)
                  /\ b + 1 < c
                  /\ l[c] = "'"
                  /\ c < d
                  /\ l[d] = "="
                  /\ d < e

-----------------------------------------------------------------------------
(* QueryExecutor: the validator *)

dangerous_keywords ==
    << <<"D","R","O","P">>, <<"T","R","U","N","C","A","T","E">>, <<"E","X","E","C">>, <<"E","X","E","C","U","T","E">>, <<"S","C","R","I","P","T">>, <<"S","H","U","T","D","O","W","N">>, <<"G","R","A","N","T">>, <<"R","E","V","O","K","E">> >>

_remove_string_literals(sql) == sub_quoted(sub_quoted(sql, "'"), "\"")

_has_multiple_statements(sql) ==
    LET cleaned == _remove_string_literals(sql)
    IN  contains(cleaned, <<";">>) /\ ~endswith(strip(cleaned), <<";">>)

_balanced_quotes(sql) ==
    LET single_quotes == count(sql, <<"'">>) - count(sql, <<"\\","'">>)
        double_quotes == count(sql, <<"\"">>) - count(sql, <<"\\","\"">>)
    IN  single_quotes % 2 = 0 /\ double_quotes % 2 = 0

suspicious_patterns(sql) ==
    \/ search_ws(sql, <<"u","n","i","o","n">>, <<"s","e","l","e","c","t">>, 1)
    \/ search_ws(sql, <<";">>, <<"d","r","o","p">>, 0)
    \/ search_ws(sql, <<";">>, <<"d","e","l","e","t","e">>, 0)
    \/ search_ws(sql, <<";">>, <<"u","p","d","a","t","e">>, 0)
    \/ search_ws(sql, <<";">>, <<"i","n","s","e","r","t">>, 0)
    \/ search_ws_ws(sql, <<"1">>, <<"=">>, <<"1">>)
    \/ search_quoted_or(sql)

Unsafe(text, arg) == [safe |-> FALSE, reason |-> [none |-> FALSE, text |-> text, arg |-> arg]]

\* mutant of keyword_hits: the text is searched as written, not upper-cased
keyword_hits_case_sensitive(sql) ==
    {k \in 1..Len(dangerous_keywords) : contains(sql, dangerous_keywords[k])}

\* the positions in dangerous_keywords of the keywords found in sql_query.upper()
keyword_hits(sql) ==
    LET query_upper == upper(sql)
    IN  {k \in 1..Len(dangerous_keywords) : contains(query_upper, dangerous_keywords[k])}

_validate_query(sql) ==
    LET hits == keyword_hits(sql)
    IN  IF hits # {}
        THEN LET first == CHOOSE k \in hits : \A h \in hits : k <= h
             IN  Unsafe("Query contains potentially dangerous keyword: ", dangerous_keywords[first])
        ELSE IF _has_multiple_statements(sql)
        THEN Unsafe("Multiple SQL statements detected. Only single statements are allowed.", <<>>)
        ELSE IF contains(sql, <<"-","-">>) \/ contains(sql, <<"/","*">>)
        THEN Unsafe("SQL comments detected. Comments are not allowed for security.", <<>>)
        ELSE IF ~_balanced_quotes(sql)
        THEN Unsafe("Unbalanced quotes detected. Possible SQL injection attempt.", <<>>)
        ELSE IF suspicious_patterns(sql)
        THEN Unsafe("Suspicious pattern detected: possible SQL injection attempt", <<>>)
        ELSE [safe |-> TRUE, reason |-> PyNone]

-----------------------------------------------------------------------------
(* execute: QueryExecutor.execute and fix_query_executor_execute *)

Implementations == {"execute", "fix_query_executor_execute"}

\* a Python string made of a fixed text followed by a variable part
Str(text, arg) == [none |-> FALSE, text |-> text, arg |-> arg]

\* the failure dict {'success': False, 'error': error, 'data': None}
Failure(error) == [success |-> FALSE, error |-> error, data |-> PyNone]

\* mutant of early_return: the connection is checked before the verdict
early_return_connection_first(v, conn) ==
    IF ~conn THEN PyVal(Failure(Str("No database connection available", <<>>)))
    ELSE IF ~v.safe THEN PyVal(Failure(v.reason))
    ELSE PyNone

\* the two early returns before the try block; PyNone when the call goes on
early_return(v, conn) ==
    IF ~v.safe THEN PyVal(Failure(v.reason))
    ELSE IF ~conn THEN PyVal(Failure(Str("No database connection available", <<>>)))
    ELSE PyNone

\* truth value of the parameters argument: `if parameters:`
truthy(p) ==
    /\ ~p.none
    /\ p.kind = "list" => p.items # <<>>
    /\ p.kind = "scalar" => p.items[1] # 0

\* the local name parameters once the execute step was reached: the fixed
\* implementation rebinds a truthy non-list to [parameters]
normalized_parameters(i, p) ==
    IF i = "fix_query_executor_execute" /\ truthy(p) /\ p.kind # "list"
    THEN [none |-> FALSE, kind |-> "list", items |-> p.items]
    ELSE p

\* what cursor.execute receives besides the text
bound_parameters(i, p) ==
    IF ~truthy(p) THEN PyNone ELSE normalized_parameters(i, p)

\* mutant of is_select: the text is not trimmed
is_select_untrimmed(sql) == startswith(upper(sql), <<"S","E","L","E","C","T">>)

\* sql_query.strip().upper().startswith('SELECT')
is_select(sql) == startswith(upper(strip(sql)), <<"S","E","L","E","C","T">>)

\* dict(zip(columns, row)): a later column of the same name overwrites an earlier one
dict_zip(columns, row) ==
    [c \in {columns[j] : j \in 1..Len(columns)} |->
        row[CHOOSE j \in 1..Len(columns) :
                columns[j] = c /\ \A k \in (j + 1)..Len(columns) : columns[k] # c]]

\* data = [dict(zip(columns, row)) for row in rows]
row_mappings(columns, rows) == [i \in 1..Len(rows) |-> dict_zip(columns, rows[i])]

select_result(columns, rows) ==
    LET data == row_mappings(columns, rows)
    IN  [success |-> TRUE, data |-> PyVal(data), error |-> PyNone, rows_affected |-> Len(data)]

commit_result(rc) ==
    [success |-> TRUE, data |-> PyNone, error |-> PyNone, rows_affected |-> rc]

\* the dict returned by the handler of the fixed implementation
debug_failure(e, sql, p) ==
    [success |-> FALSE, error |-> Str("Database error: ", e.msg), data |-> PyNone,
     debug_info |-> [sql |-> sql, parameters |-> p, error_type |-> e.type]]

Op(name, ok, bound) == [op |-> name, ok |-> ok, bound |-> bound]

\* what the store can answer to a call: success, a sqlite3.Error, or another exception
Messages == { <<"l","o","c","k","e","d">>, <<"b","o","o","m">> }
Outcomes ==
    {[ok |-> TRUE]} \cup
    {[ok |-> FALSE, type |-> t, msg |-> m] : t \in {"sqlite3.Error", "Exception"}, m \in Messages}

Raised(out) == PyVal([type |-> out.type, msg |-> out.msg])

ColumnLists == { <<"a">>, <<"a", "b">>, <<"a", "a">> }
Values == {1, 2}
RowLists(columns) ==
    UNION {[1..n -> [1..Len(columns) -> Values]] : n \in 0..MaxRows}

ExecTexts ==
    { <<"S","E","L","E","C","T"," ","a"," ","F","R","O","M"," ","t">>, <<" ","\n","s","e","l","e","c","t"," ","a">>, <<"S","E","L","E","C","T","E","D">>, <<"U","P","D","A","T","E"," ","t"," ","S","E","T"," ","a"," ","="," ","2",";">>, <<"w","i","t","h"," ","x"," ","s","e","l","e","c","t"," ","a">>,
      <<"D","R","O","P"," ","T","A","B","L","E"," ","t">>, <<"S","E","L","E","C","T"," ","1",";"," ","S","E","L","E","C","T"," ","2">>, <<"S","E","L","E","C","T"," ","'","a">>, <<"S","E","L","E","C","T"," ","a"," ","-","-"," ","x">> }

ParameterArgs ==
    { PyNone,
      [none |-> FALSE, kind |-> "list", items |-> <<>>],
      [none |-> FALSE, kind |-> "list", items |-> <<7>>],
      [none |-> FALSE, kind |-> "scalar", items |-> <<7>>] }

InitExec ==
    /\ impl \in Implementations
    /\ sql_query \in ExecTexts
    /\ connection \in BOOLEAN
    /\ parameters \in ParameterArgs
    /\ pc = "call"
    /\ validation = PyNone
    /\ cursor = "unbound"
    /\ exc = PyNone
    /\ ops = <<>>
    /\ rowcount = -1
    /\ fetched = PyNone
    /\ result = PyNone
    /\ escaped = PyNone
    /\ BuildIdle

\* validate, then check the connection; the fixed implementation then binds cursor = None
ExecuteValidate ==
    /\ pc = "call"
    /\ validation' = _validate_query(sql_query)
    /\ LET early == early_return(validation', connection)
       IN  IF ~early.none
           THEN /\ result' = early.value
                /\ pc' = "returned"
                /\ cursor' = cursor
           ELSE /\ result' = result
                /\ pc' = "try"
                /\ cursor' = IF impl = "fix_query_executor_execute" THEN "None" ELSE "unbound"
    /\ UNCHANGED <<impl, sql_query, connection, parameters, exc, ops, rowcount,
                   fetched, escaped, buildVars>>

\* cursor = connection.cursor()
OpenCursor ==
    /\ pc = "try"
    /\ \E out \in Outcomes :
          /\ ops' = Append(ops, Op("cursor", out.ok, PyNone))
          /\ IF out.ok
             THEN cursor' = "open" /\ exc' = exc /\ pc' = "executing"
             ELSE cursor' = cursor /\ exc' = Raised(out) /\ pc' = "except"
    /\ UNCHANGED <<impl, sql_query, connection, parameters, validation, rowcount,
                   fetched, result, escaped, buildVars>>

\* cursor.execute(sql_query, parameters) or cursor.execute(sql_query)
ExecuteStatement ==
    /\ pc = "executing"
    /\ \E out \in Outcomes, rc \in -1..MaxRows :
          /\ ops' = Append(ops, Op("execute", out.ok, bound_parameters(impl, parameters)))
          /\ IF out.ok
             THEN /\ rowcount' = rc
                  /\ exc' = exc
                  /\ pc' = IF is_select(sql_query) THEN "fetching" ELSE "committing"
             ELSE /\ rowcount' = rowcount
                  /\ exc' = Raised(out)
                  /\ pc' = "except"
    /\ UNCHANGED <<impl, sql_query, connection, parameters, validation, cursor,
                   fetched, result, escaped, buildVars>>

\* the SELECT branch: cursor.description, cursor.fetchall(), the row mappings, return
FetchRows ==
    /\ pc = "fetching"
    /\ \/ \E columns \in ColumnLists : \E rows \in RowLists(columns) :
             /\ ops' = Append(ops, Op("fetchall", TRUE, PyNone))
             /\ fetched' = PyVal([columns |-> columns, rows |-> rows])
             /\ result' = select_result(columns, rows)
             /\ exc' = exc
             /\ pc' = "finally"
       \/ \E out \in Outcomes :
             /\ ~out.ok
             /\ ops' = Append(ops, Op("fetchall", FALSE, PyNone))
             /\ exc' = Raised(out)
             /\ pc' = "except"
             /\ UNCHANGED <<fetched, result>>
    /\ UNCHANGED <<impl, sql_query, connection, parameters, validation, cursor,
                   rowcount, escaped, buildVars>>

\* the other branch: connection.commit(), return
Commit ==
    /\ pc = "committing"
    /\ \E out \in Outcomes :
          /\ ops' = Append(ops, Op("commit", out.ok, PyNone))
          /\ IF out.ok
             THEN result' = commit_result(rowcount) /\ exc' = exc /\ pc' = "finally"
             ELSE result' = result /\ exc' = Raised(out) /\ pc' = "except"
    /\ UNCHANGED <<impl, sql_query, connection, parameters, validation, cursor,
                   rowcount, fetched, escaped, buildVars>>

\* QueryExecutor.execute: except sqlite3.Error rolls back (a failing rollback
\* propagates); except Exception reports "Unexpected error" without a rollback
HandleExceptionExecute ==
    /\ pc = "except"
    /\ impl = "execute"
    /\ \/ /\ exc.value.type = "sqlite3.Error"
          /\ \E rolled \in BOOLEAN :
                /\ ops' = Append(ops, Op("rollback", rolled, PyNone))
                /\ IF rolled
                   THEN /\ result' = Failure(Str("Database error: ", exc.value.msg))
                        /\ escaped' = escaped
                   ELSE /\ result' = result
                        /\ escaped' = PyVal([type |-> "sqlite3.Error", msg |-> <<"r","o","l","l","b","a","c","k">>])
       \/ /\ exc.value.type # "sqlite3.Error"
          /\ result' = Failure(Str("Unexpected error: ", exc.value.msg))
          /\ UNCHANGED <<ops, escaped>>
    /\ pc' = "finally"
    /\ UNCHANGED <<impl, sql_query, connection, parameters, validation, cursor, exc,
                   rowcount, fetched, buildVars>>

\* fix_query_executor_execute: except Exception rolls back inside try/except: pass
HandleExceptionFix ==
    /\ pc = "except"
    /\ impl = "fix_query_executor_execute"
    /\ \E rolled \in BOOLEAN :
          ops' = Append(ops, Op("rollback", rolled, PyNone))
    /\ result' = debug_failure(exc.value, sql_query,
                               IF cursor = "open"
                               THEN normalized_parameters(impl, parameters)
                               ELSE parameters)
    /\ pc' = "finally"
    /\ UNCHANGED <<impl, sql_query, connection, parameters, validation, cursor, exc,
                   rowcount, fetched, escaped, buildVars>>

\* QueryExecutor.execute: finally: cursor.close(), also when cursor was never bound
FinallyExecute ==
    /\ pc = "finally"
    /\ impl = "execute"
    /\ IF cursor = "unbound"
       THEN /\ escaped' = PyVal([type |-> "UnboundLocalError", msg |-> <<"c","u","r","s","o","r">>])
            /\ result' = PyNone
            /\ pc' = "raised"
            /\ UNCHANGED <<ops, cursor>>
       ELSE /\ ops' = Append(ops, Op("close", TRUE, PyNone))
            /\ cursor' = "closed"
            /\ pc' = IF escaped.none THEN "returned" ELSE "raised"
            /\ UNCHANGED <<result, escaped>>
    /\ UNCHANGED <<impl, sql_query, connection, parameters, validation, exc,
                   rowcount, fetched, buildVars>>

\* fix_query_executor_execute: finally: if cursor: cursor.close()
FinallyFix ==
    /\ pc = "finally"
    /\ impl = "fix_query_executor_execute"
    /\ IF cursor = "open"
       THEN ops' = Append(ops, Op("close", TRUE, PyNone)) /\ cursor' = "closed"
       ELSE UNCHANGED <<ops, cursor>>
    /\ pc' = "returned"
    /\ UNCHANGED <<impl, sql_query, connection, parameters, validation, exc,
                   rowcount, fetched, result, escaped, buildVars>>

NextExec ==
    \/ ExecuteValidate
    \/ OpenCursor
    \/ ExecuteStatement
    \/ FetchRows
    \/ Commit
    \/ HandleExceptionExecute
    \/ HandleExceptionFix
    \/ FinallyExecute
    \/ FinallyFix

SpecExec == InitExec /\ [][NextExec]_vars

-----------------------------------------------------------------------------
(* fix_build_where_clause *)

\* the column names of a table of the schema: [col['name'] for col in ...['columns']]
column_names(sch, table) == {sch[table][j] : j \in 1..Len(sch[table])}

\* the tables that get the mandatory filters; with no schema, the first table only
filterable_tables(p, sch) ==
    IF ~sch.none
    THEN SelectSeq(p.tables,
                   LAMBDA t : /\ t \in DOMAIN sch.value
                              /\ <<"u","s","e","r","_","i","d">> \in column_names(sch.value, t)
                              /\ <<"c","o","m","p","a","n","y","_","n","a","m","e">> \in column_names(sch.value, t))
    ELSE IF p.tables # <<>> THEN <<p.tables[1]>> ELSE <<>>

\* the table prefix of a mandatory filter: "<table>." in a join, nothing otherwise
filter_prefix(p, table) == IF Len(p.tables) > 1 THEN table \o <<".">> ELSE <<>>

\* mutant of isolation_filters: company_name is bound before user_id
isolation_filters_swapped(p, twf) ==
    [conditions |->
        [i \in 1..(2 * Len(twf)) |->
            filter_prefix(p, twf[(i + 1) \div 2]) \o
                (IF i % 2 = 1 THEN <<"u","s","e","r","_","i","d"," ","="," ","?">> ELSE <<"c","o","m","p","a","n","y","_","n","a","m","e"," ","="," ","?">>)],
     parameters |->
        [i \in 1..(2 * Len(twf)) |->
            IF i % 2 = 1 THEN p.user_filters.company_name ELSE p.user_filters.user_id]]

\* the mandatory filters: for each table, user_id then company_name, text and value
isolation_filters(p, twf) ==
    [conditions |->
        [i \in 1..(2 * Len(twf)) |->
            filter_prefix(p, twf[(i + 1) \div 2]) \o
                (IF i % 2 = 1 THEN <<"u","s","e","r","_","i","d"," ","="," ","?">> ELSE <<"c","o","m","p","a","n","y","_","n","a","m","e"," ","="," ","?">>)],
     parameters |->
        [i \in 1..(2 * Len(twf)) |->
            IF i % 2 = 1 THEN p.user_filters.user_id ELSE p.user_filters.company_name]]

\* self._find_column_table(field, tables, schema): the first of the tables whose
\* schema entry has a column of that name, None when there is none
_find_column_table(field, tables, sch) ==
    LET owners == {i \in 1..Len(tables) :
                      /\ ~sch.none
                      /\ tables[i] \in DOMAIN sch.value
                      /\ field \in column_names(sch.value, tables[i])}
    IN  IF owners = {} THEN PyNone
        ELSE PyVal(tables[CHOOSE i \in owners : \A j \in owners : i <= j])

\* self._build_date_condition(condition): a clause, or None when it yields none
_build_date_condition(condition, yields) ==
    IF yields THEN PyVal(condition.field \o <<" ",">","="," ","d","a","t","e","(","'","n","o","w","'",")">>) ELSE PyNone

\* the field of a condition, prefixed with its table in a join
qualified_field(condition, p, sch) ==
    IF Len(p.tables) > 1 /\ ~contains(condition.field, <<".">>)
    THEN LET field_table == _find_column_table(condition.field, p.tables, sch)
         IN  IF ~field_table.none /\ field_table.value # <<>>
             THEN field_table.value \o <<".">> \o condition.field
             ELSE condition.field
    ELSE condition.field

\* one iteration of the loop over parsed.conditions: the text appended to
\* conditions (none or one) and the values appended to self.parameters
translate_condition(condition, p, sch, date_yields) ==
    LET field    == qualified_field(condition, p, sch)
        operator == condition.operator
        value    == condition.value
    IN  IF operator = <<"d","a","t","e","_","c","o","n","d","i","t","i","o","n">>
        THEN LET date_condition == _build_date_condition(condition, date_yields)
             IN  [conditions |-> IF date_condition.none THEN <<>> ELSE <<date_condition.value>>,
                  parameters |-> <<>>]
        ELSE IF operator = <<"r","a","w","_","c","o","n","d","i","t","i","o","n">>
        THEN [conditions |-> <<value>>, parameters |-> <<>>]
        ELSE IF operator = <<"I","S"," ","N","U","L","L">> \/ operator = <<"I","S"," ","N","O","T"," ","N","U","L","L">>
        THEN [conditions |-> <<field \o <<" ">> \o operator>>, parameters |-> <<>>]
        ELSE IF operator = <<"L","I","K","E">>
        THEN [conditions |-> <<field \o <<" ","L","I","K","E"," ","?">>>>, parameters |-> <<<<"%">> \o value \o <<"%">>>>]
        ELSE IF operator = <<"I","N">>
        THEN LET parts        == split(value, <<",">>)
                 values       == [i \in 1..Len(parts) |-> strip(parts[i])]
                 placeholders == join(<<","," ">>, [i \in 1..Len(values) |-> <<"?">>])
             IN  [conditions |-> <<field \o <<" ","I","N"," ","(">> \o placeholders \o <<")">>>>,
                  parameters |-> values]
        ELSE IF operator = <<"B","E","T","W","E","E","N">> /\ contains(lower(value), <<" ","a","n","d"," ">>)
        THEN LET parts == split(lower(value), <<" ","a","n","d"," ">>)
             IN  [conditions |-> <<field \o <<" ","B","E","T","W","E","E","N"," ","?"," ","A","N","D"," ","?">>>>,
                  parameters |-> <<strip(parts[1]), strip(parts[2])>>]
        ELSE [conditions |-> <<field \o <<" ">> \o operator \o <<" ","?">>>>,
              parameters |-> <<value>>]

\* the loop over parsed.conditions, in list order
RECURSIVE translate_conditions(_, _, _, _)
translate_conditions(conds, p, sch, date_yields) ==
    IF conds = <<>> THEN [conditions |-> <<>>, parameters |-> <<>>]
    ELSE LET head == translate_condition(conds[1], p, sch, date_yields)
             rest == translate_conditions(Tail(conds), p, sch, date_yields)
         IN  [conditions |-> head.conditions \o rest.conditions,
              parameters |-> head.parameters \o rest.parameters]

\* mutant of emitted_conditions: the parsed conditions are emitted first
emitted_conditions_user_first(mandatory, translated) == translated \o mandatory

\* the list conditions at the end of the call: mandatory filters, then parsed conditions
emitted_conditions(mandatory, translated) == mandatory \o translated

\* f"WHERE {' AND '.join(conditions)}" if conditions else ""
where_text(conditions) ==
    IF conditions # <<>> THEN <<"W","H","E","R","E"," ">> \o join(<<" ","A","N","D"," ">>, conditions) ELSE <<>>

TableNames == { <<"t","1">>, <<"t","2">> }

Schemas ==
    { PyNone,
      PyVal([t \in { <<"t","1">>, <<"t","2">> } |->
                IF t = <<"t","1">> THEN << <<"u","s","e","r","_","i","d">>, <<"c","o","m","p","a","n","y","_","n","a","m","e">>, <<"a","g","e">> >>
                ELSE << <<"n","m">>, <<"c","o","m","p","a","n","y","_","n","a","m","e">>, <<"u","s","e","r","_","i","d">> >>]),
      PyVal([t \in { <<"t","1">>, <<"t","2">> } |->
                IF t = <<"t","1">> THEN << <<"u","s","e","r","_","i","d">>, <<"c","o","m","p","a","n","y","_","n","a","m","e">>, <<"a","g","e">> >>
                ELSE << <<"u","s","e","r","_","i","d">>, <<"n","m">> >>]),
      PyVal([t \in { <<"t","2">> } |-> << <<"u","s","e","r","_","i","d">>, <<"n","m">> >>]) }

Cond(f, o, v) == [field |-> f, operator |-> o, value |-> v]

Conditions ==
    { Cond(<<"a","g","e">>, <<">">>, <<"1","8">>),
      Cond(<<"a","g","e">>, <<"B","E","T","W","E","E","N">>, <<"1","8"," ","a","n","d"," ","3","0">>),
      Cond(<<"n","m">>, <<"B","E","T","W","E","E","N">>, <<"A","n","n"," ","A","N","D"," "," ","B","o","b">>),
      Cond(<<"a","g","e">>, <<"B","E","T","W","E","E","N">>, <<"1"," ","a","n","d"," ","2"," ","a","n","d"," ","3">>),
      Cond(<<"a","g","e">>, <<"B","E","T","W","E","E","N">>, <<"5">>),
      Cond(<<"n","m">>, <<"L","I","K","E">>, <<"x">>),
      Cond(<<"n","m">>, <<"I","N">>, <<"A",","," ","B",",","C">>),
      Cond(<<"t","2",".","n","m">>, <<"I","S"," ","N","U","L","L">>, <<>>),
      Cond(<<>>, <<"r","a","w","_","c","o","n","d","i","t","i","o","n">>, <<"x"," ","="," ","1">>),
      Cond(<<>>, <<"r","a","w","_","c","o","n","d","i","t","i","o","n">>, <<"y"," ","="," ","?">>),
      Cond(<<"d">>, <<"d","a","t","e","_","c","o","n","d","i","t","i","o","n">>, <<"t","o","d","a","y">>) }

RECURSIVE SeqsUpTo(_, _)
SeqsUpTo(S, n) ==
    IF n = 0 THEN {<<>>}
    ELSE LET shorter == SeqsUpTo(S, n - 1)
         IN  shorter \cup {Append(q, x) : q \in shorter, x \in S}

InitBuild ==
    /\ ExecIdle
    /\ parsed \in [tables : SeqsUpTo(TableNames, MaxTables),
                   conditions : SeqsUpTo(Conditions, MaxConds),
                   user_filters : {[user_id |-> <<"u","1">>, company_name |-> <<"c","1">>]}]
    /\ schema \in Schemas
    /\ self_parameters = <<>>
    /\ assumptions = <<>>
    /\ tables_with_filters = <<>>
    /\ where_clause = <<>>
    /\ bpc = "fresh"

\* what the date expander may answer in a call: it is only asked when the query
\* holds a date_condition
DateAnswers(p) ==
    IF \E i \in 1..Len(p.conditions) : p.conditions[i].operator = <<"d","a","t","e","_","c","o","n","d","i","t","i","o","n">>
    THEN BOOLEAN ELSE {FALSE}

\* one call of fix_build_where_clause(self, parsed) on a fresh builder
BuildWhereClause ==
    /\ bpc = "fresh"
    /\ \E date_yields \in DateAnswers(parsed) :
          LET twf        == filterable_tables(parsed, schema)
              mandatory  == isolation_filters(parsed, twf)
              translated == translate_conditions(parsed.conditions, parsed, schema, date_yields)
          IN  /\ tables_with_filters' = twf
              /\ self_parameters' = self_parameters \o mandatory.parameters \o translated.parameters
              /\ assumptions' = Append(assumptions,
                     "Added mandatory user and company filters for data isolation")
              /\ where_clause' = where_text(emitted_conditions(mandatory.conditions,
                                                               translated.conditions))
    /\ bpc' = "built"
    /\ UNCHANGED <<parsed, schema, execVars>>

NextBuild == BuildWhereClause

SpecBuild == InitBuild /\ [][NextBuild]_vars

-----------------------------------------------------------------------------
(* SpecValidate: _validate_query applied to bounded texts *)

Fragments ==
    { <<"a">>, <<";">>, <<" ">>, <<"'">>, <<"\"">>, <<"D","R","O","P">>, <<"E","x","e","c","u","t","e">>, <<"g","r","a","n","t">>, <<"S","E","L","E","C","T"," ","1">>, <<"-","-">>,
      <<"\n">>, <<"\\">>, <<"=">>, <<"1">>, <<"u","n","i","o","n">>, <<"'","o","r","'">>, <<"'","'">> }

RECURSIVE TextsUpTo(_)
TextsUpTo(n) ==
    IF n = 0 THEN {<<>>}
    ELSE LET shorter == TextsUpTo(n - 1)
         IN  shorter \cup {t \o f : t \in shorter, f \in Fragments}

InitValidate ==
    /\ impl = "execute"
    /\ sql_query \in TextsUpTo(MaxFrags)
    /\ connection = FALSE
    /\ parameters = PyNone
    /\ pc = "call"
    /\ validation = PyNone
    /\ cursor = "unbound"
    /\ exc = PyNone
    /\ ops = <<>>
    /\ rowcount = -1
    /\ fetched = PyNone
    /\ result = PyNone
    /\ escaped = PyNone
    /\ BuildIdle

\* validation = self._validate_query(sql_query)
ValidateQuery ==
    /\ pc = "call"
    /\ validation' = _validate_query(sql_query)
    /\ pc' = "validated"
    /\ UNCHANGED <<impl, sql_query, connection, parameters, cursor, exc, ops,
                   rowcount, fetched, result, escaped, buildVars>>

NextValidate == ValidateQuery

SpecValidate == InitValidate /\ [][NextValidate]_vars

-----------------------------------------------------------------------------
(* Claims about the validator *)

\* the quote character that is open after the first i characters of s, "" if none
RECURSIVE OpenQuote(_, _)
OpenQuote(s, i) ==
    IF i = 0 THEN ""
    ELSE LET before == OpenQuote(s, i - 1)
         IN  IF before = ""
             THEN (IF s[i] \in {"'", "\""} THEN s[i] ELSE "")
             ELSE (IF s[i] = before THEN "" ELSE before)

\* s[i] is a ';' outside every string literal
BareSemicolon(s, i) ==
    /\ s[i] = ";"
    /\ LET q == OpenQuote(s, i - 1)
       IN  q = "" \/ ~\E j \in (i + 1)..Len(s) : s[j] = q

\* index of the final character of the whitespace-trimmed text, 0 if there is none
LastOfTrimmed(s) ==
    IF \A i \in 1..Len(s) : IsSpace(s[i]) THEN 0
    ELSE CHOOSE i \in 1..Len(s) : ~IsSpace(s[i]) /\ \A j \in (i + 1)..Len(s) : IsSpace(s[j])

\* C3: every text with a bare ';' (outside every string literal) at a position
\* other than the final character of the trimmed text is rejected by validate,
\* a text of two statements ending in ';' included.
C3_BareSemicolonRejected ==
    pc = "validated" =>
        ((\E i \in 1..Len(sql_query) :
              BareSemicolon(sql_query, i) /\ i # LastOfTrimmed(sql_query))
         => validation.safe = FALSE)

-----------------------------------------------------------------------------
(* Claims about execute *)

Terminal == pc \in {"returned", "raised"}

OpsNamed(name) == {i \in 1..Len(ops) : ops[i].op = name}

\* a call on the connection or the cursor made inside the try block failed
FailedAtExecution ==
    \E i \in 1..Len(ops) :
        ops[i].op \in {"cursor", "execute", "fetchall", "commit"} /\ ~ops[i].ok

\* C2: when the validator rejects the text, execute returns
\* {success: false, error: <the validator's reason>, data: null} and makes no
\* call on the connection or a cursor, whether or not a connection was supplied.
C2_RejectedTouchesNothing ==
    (pc # "call" /\ ~validation.safe) =>
        /\ pc = "returned"
        /\ ops = <<>>
        /\ cursor = "unbound"
        /\ escaped.none
        /\ result = [success |-> FALSE, error |-> validation.reason, data |-> PyNone]
        /\ validation.reason.none = FALSE

\* C2 witness: a rejected text was returned from a call without a connection
\* and carries the validator's reason.
C2_Witness ==
    /\ pc = "returned"
    /\ ~validation.safe
    /\ ~connection
    /\ ops = <<>>
    /\ result.error.text = "Multiple SQL statements detected. Only single statements are allowed."

\* C5: whenever a validated statement fails at execution time, whatever the
\* kind of failure, execute attempts a rollback before it returns and returns
\* {success: false, error: "Database error: <message>", data: null}.
C5_AnyFailureRollsBack ==
    (pc = "returned" /\ FailedAtExecution) =>
        /\ OpsNamed("rollback") # {}
        /\ result.success = FALSE
        /\ result.error = Str("Database error: ", exc.value.msg)
        /\ result.data = PyNone

\* C6: every call of execute ends by returning a result dict and no exception
\* escapes, whichever steps fail; after a failure the result is
\* {success: false} with a non-null error.
C6_NothingEscapes ==
    /\ pc # "raised"
    /\ escaped.none \/ pc # "returned"
    /\ (pc = "returned" /\ FailedAtExecution) =>
          result.success = FALSE /\ result.error.none = FALSE

\* C9: in every call a cursor that was acquired is closed exactly once before
\* the call ends, and when no cursor was acquired no close is attempted on a
\* cursor that does not exist.
C9_CursorClosedOnce ==
    Terminal =>
        IF \E i \in OpsNamed("cursor") : ops[i].ok
        THEN Cardinality(OpsNamed("close")) = 1 /\ cursor = "closed"
        ELSE /\ OpsNamed("close") = {}
             /\ escaped.none \/ escaped.value.type # "UnboundLocalError"

\* the text, after its leading whitespace, begins with SELECT in some letter case
SelectPrefix(s) ==
    \E k \in 0..Len(s) :
        /\ \A j \in 1..k : IsSpace(s[j])
        /\ k + 6 <= Len(s)
        /\ \A j \in 1..6 : UpperChar(s[k + j]) = <<"S","E","L","E","C","T">>[j]

\* C7: a validated statement that executes successfully is dispatched on its
\* trimmed, case-insensitive prefix: for SELECT no commit is issued and the
\* result holds one row mapping per fetched row and rows_affected = number of
\* rows; otherwise the transaction is committed exactly once, after the
\* statement ran, data is null and rows_affected is the store's row count.
C7_SuccessDispatch ==
    (pc = "returned" /\ result.success) =>
        /\ result.error = PyNone
        /\ \E i \in OpsNamed("execute") : ops[i].ok
        /\ IF SelectPrefix(sql_query)
           THEN /\ OpsNamed("commit") = {}
                /\ ~fetched.none
                /\ ~result.data.none
                /\ Len(result.data.value) = Len(fetched.value.rows)
                /\ result.rows_affected = Len(fetched.value.rows)
                /\ \A r \in 1..Len(fetched.value.rows) :
                      LET m    == result.data.value[r]
                          cols == fetched.value.columns
                      IN  /\ DOMAIN m = {cols[j] : j \in 1..Len(cols)}
                          /\ \A c \in DOMAIN m :
                                \E j \in 1..Len(cols) :
                                    cols[j] = c /\ m[c] = fetched.value.rows[r][j]
           ELSE /\ Cardinality(OpsNamed("commit")) = 1
                /\ \A c \in OpsNamed("commit") :
                      ops[c].ok /\ \E e \in OpsNamed("execute") : e < c /\ ops[e].ok
                /\ result.data = PyNone
                /\ result.rows_affected = rowcount
                /\ fetched.none

\* C7 witness: a lower-case select with leading whitespace returned no rows:
\* data is the empty list and rows_affected is 0, and nothing was committed.
C7_Witness ==
    /\ pc = "returned"
    /\ result.success
    /\ SelectPrefix(sql_query)
    /\ sql_query # strip(sql_query)
    /\ sql_query # upper(sql_query)
    /\ result.data = PyVal(<<>>)
    /\ result.rows_affected = 0
    /\ OpsNamed("commit") = {}

\* K occurs in s in some letter case
ContainsAnyCase(s, K) ==
    \E i \in 1..Len(s) :
        /\ i + Len(K) - 1 <= Len(s)
        /\ \A j \in 1..Len(K) : UpperChar(s[i + j - 1]) = K[j]

KeywordsIn(s) == {k \in 1..Len(dangerous_keywords) : ContainsAnyCase(s, dangerous_keywords[k])}

\* C8 (as stated): every text that contains a denylist keyword K in any letter
\* case is rejected with a reason that names that keyword K.
C8_ReasonNamesEveryKeyword ==
    pc = "validated" =>
        \A k \in KeywordsIn(sql_query) :
            /\ validation.safe = FALSE
            /\ validation.reason.arg = dangerous_keywords[k]

\* C8 (amended): every text that contains a denylist keyword in any letter case
\* is rejected, and the reason names the first keyword of the denylist, in list
\* order, that the text contains.
C8_ReasonNamesFirstKeyword ==
    pc = "validated" =>
        (KeywordsIn(sql_query) # {} =>
            /\ validation.safe = FALSE
            /\ validation.reason.none = FALSE
            /\ validation.reason.text = "Query contains potentially dangerous keyword: "
            /\ \E k \in KeywordsIn(sql_query) :
                  /\ \A h \in KeywordsIn(sql_query) : k <= h
                  /\ validation.reason.arg = dangerous_keywords[k])

\* C8 witness: a mixed-case text holding EXECUTE and GRANT was validated and
\* rejected under EXEC, the first keyword of the list it contains.
C8_Witness ==
    /\ pc = "validated"
    /\ ContainsAnyCase(sql_query, <<"E","X","E","C","U","T","E">>)
    /\ ContainsAnyCase(sql_query, <<"G","R","A","N","T">>)
    /\ sql_query # upper(sql_query)
    /\ validation.safe = FALSE
    /\ validation.reason.arg = <<"E","X","E","C">>

-----------------------------------------------------------------------------
(* Claims about the WHERE-clause builder *)

\* the text of the two isolation predicates of table t, user_id first
IsolationText(t) ==
    LET prefix == IF Len(parsed.tables) > 1 THEN t \o <<".">> ELSE <<>>
    IN  prefix \o <<"u","s","e","r","_","i","d"," ","="," ","?">> \o <<" ","A","N","D"," ">> \o prefix \o <<"c","o","m","p","a","n","y","_","n","a","m","e"," ","="," ","?">>

\* "WHERE " and the isolation predicates of the filterable tables, in list order
IsolationPrefix ==
    <<"W","H","E","R","E"," ">> \o
    join(<<" ","A","N","D"," ">>, [i \in 1..Len(tables_with_filters) |-> IsolationText(tables_with_filters[i])])

HasOperator(o) ==
    \E i \in 1..Len(parsed.conditions) : parsed.conditions[i].operator = o

\* C1: whenever the builder finds at least one filterable table, the returned
\* clause holds a user_id and a company_name predicate for each filterable
\* table, and all of them stand in the text before the predicate of any
\* condition of parsed.conditions: the clause begins with them, and whatever
\* the conditions contribute follows after an AND.
C1_IsolationFirst ==
    (bpc = "built" /\ tables_with_filters # <<>>) =>
        /\ startswith(where_clause, IsolationPrefix)
        /\ \/ Len(where_clause) = Len(IsolationPrefix)
           \/ occurs_at(where_clause, <<" ","A","N","D"," ">>, Len(IsolationPrefix) + 1)
        /\ \A i \in 1..Len(parsed.conditions) :
              parsed.conditions[i].operator = <<"r","a","w","_","c","o","n","d","i","t","i","o","n">> =>
                  \E at \in (Len(IsolationPrefix) + 1)..Len(where_clause) :
                      occurs_at(where_clause, <<" ","A","N","D"," ">> \o parsed.conditions[i].value, at)

\* C1 witness: a join of two filterable tables with a raw_condition and a
\* date_condition that yielded a clause; both follow the four isolation predicates.
C1_Witness ==
    /\ bpc = "built"
    /\ Len(tables_with_filters) = 2
    /\ HasOperator(<<"r","a","w","_","c","o","n","d","i","t","i","o","n">>)
    /\ HasOperator(<<"d","a","t","e","_","c","o","n","d","i","t","i","o","n">>)
    /\ contains(where_clause, <<"d","a","t","e","(","'","n","o","w","'",")">>)
    /\ Len(where_clause) > Len(IsolationPrefix)

\* the values bound for one condition, in the order of its placeholders
ConditionValues(c) ==
    IF c.operator \in { <<"d","a","t","e","_","c","o","n","d","i","t","i","o","n">>, <<"r","a","w","_","c","o","n","d","i","t","i","o","n">>, <<"I","S"," ","N","U","L","L">>, <<"I","S"," ","N","O","T"," ","N","U","L","L">> }
    THEN <<>>
    ELSE IF c.operator = <<"L","I","K","E">> THEN << <<"%">> \o c.value \o <<"%">> >>
    ELSE IF c.operator = <<"I","N">>
    THEN LET items == split(c.value, <<",">>) IN [i \in 1..Len(items) |-> strip(items[i])]
    ELSE IF c.operator = <<"B","E","T","W","E","E","N">> /\ contains(lower(c.value), <<" ","a","n","d"," ">>)
    THEN LET bounds == split(lower(c.value), <<" ","a","n","d"," ">>)
         IN  <<strip(bounds[1]), strip(bounds[2])>>
    ELSE <<c.value>>

RECURSIVE AllConditionValues(_)
AllConditionValues(conds) ==
    IF conds = <<>> THEN <<>>
    ELSE ConditionValues(conds[1]) \o AllConditionValues(Tail(conds))

\* the isolation values: user_id then company_name for each filterable table
IsolationValues ==
    [i \in 1..(2 * Len(tables_with_filters)) |->
        IF i % 2 = 1 THEN parsed.user_filters.user_id ELSE parsed.user_filters.company_name]

PlaceholdersMatchParameters ==
    /\ count(where_clause, <<"?">>) = Len(self_parameters)
    /\ self_parameters = IsolationValues \o AllConditionValues(parsed.conditions)

\* no '?' comes from the query itself: none in a table name, a field, an
\* operator or a raw_condition value, and no date_condition is present
NoForeignPlaceholder ==
    /\ \A i \in 1..Len(parsed.tables) : ~contains(parsed.tables[i], <<"?">>)
    /\ \A i \in 1..Len(parsed.conditions) :
          LET c == parsed.conditions[i]
          IN  /\ ~contains(c.field, <<"?">>)
              /\ ~contains(c.operator, <<"?">>)
              /\ c.operator = <<"r","a","w","_","c","o","n","d","i","t","i","o","n">> => ~contains(c.value, <<"?">>)
              /\ c.operator # <<"d","a","t","e","_","c","o","n","d","i","t","i","o","n">>

C10_BetweenBoundsAsWritten ==
    (/\ bpc = "built"
     /\ Len(parsed.conditions) = 1
     /\ parsed.conditions[1].operator = <<"B","E","T","W","E","E","N">>
     /\ contains(lower(parsed.conditions[1].value), <<" ","a","n","d"," ">>))
    => LET v == parsed.conditions[1].value
           n == Len(IsolationValues)
       IN  /\ endswith(where_clause, parsed.conditions[1].field \o <<" ","B","E","T","W","E","E","N"," ","?"," ","A","N","D"," ","?">>)
           /\ Len(self_parameters) = n + 2
           /\ \E i \in 1..Len(v) :
                 /\ occurs_at(lower(v), <<" ","a","n","d"," ">>, i)
                 /\ self_parameters[n + 1] = strip(SubSeq(v, 1, i - 1))
                 /\ self_parameters[n + 2] = strip(SubSeq(v, i + 5, Len(v)))

=============================================================================
